---------------------------- MODULE Spec2Model ----------------------------
(***************************************************************************)
(* The Virtual Listener service of src/virtual_listener.py: one            *)
(* module-level VirtualListener object served by the Flask routes /listen  *)
(* and /batch_listen.  A session (virtual_listen) resets labels, streams   *)
(* one-second chunks through analyze_chunk (or falls back to               *)
(* simulate_listening), summarises with generate_analysis and stores the   *)
(* record with save_label.                                                 *)
(*                                                                         *)
(* Numbers.  Frequencies (Hz) and confidences are exact rationals <<n, d>> *)
(* with d > 0, kept in lowest terms; amplitudes are integers in            *)
(* thousandths of full scale.                                              *)
(***************************************************************************)
EXTENDS Integers, Sequences, FiniteSets, TLC

(***************************************************************************)
(* Bounds of the model.                                                    *)
(***************************************************************************)
\* longest session, in one-second chunks (the duration argument of /listen)
MaxDuration == 2
\* chunks the listener analyses over its whole lifetime, all sessions together
MaxFrames == 2
\* chunks of the long sessions that exercise the breath detector
MaxBreathFrames == 7
\* calls of the classifiers made one after the other
MaxCalls == 2
\* chunks of the first session that exercises the vibrato detector
MaxVibratoFrames == 11

(***************************************************************************)
(* Rational arithmetic.                                                    *)
(***************************************************************************)
Abs(x) == IF x < 0 THEN -x ELSE x

RECURSIVE GCD(_, _)
GCD(a, b) == IF b = 0 THEN a ELSE GCD(b, a % b)

Rat(n, d) ==
    LET s == IF d < 0 THEN -1 ELSE 1
        g == GCD(Abs(n), Abs(d))
    IN  <<(s * n) \div g, (s * d) \div g>>

Zero == <<0, 1>>
RInt(k) == <<k, 1>>
RAdd(x, y) == Rat(x[1] * y[2] + y[1] * x[2], x[2] * y[2])
RMul(x, y) == Rat(x[1] * y[1], x[2] * y[2])
RDiv(x, y) == Rat(x[1] * y[2], x[2] * y[1])
RLess(x, y) == x[1] * y[2] < y[1] * x[2]
RLeq(x, y) == x[1] * y[2] <= y[1] * x[2]

RSub(x, y) == Rat(x[1] * y[2] - y[1] * x[2], x[2] * y[2])
RAbs(x) == <<Abs(x[1]), x[2]>>
RMin(x, y) == IF RLeq(x, y) THEN x ELSE y
RMax(x, y) == IF RLeq(x, y) THEN y ELSE x

\* round(x, 1): to the nearest tenth, a tie to the even tenth
Round1(x) ==
    LET n == x[1] * 10
        q == n \div x[2]
        r == n - q * x[2]
    IN  IF 2 * r < x[2] THEN Rat(q, 10)
        ELSE IF 2 * r > x[2] THEN Rat(q + 1, 10)
        ELSE IF q % 2 = 0 THEN Rat(q, 10) ELSE Rat(q + 1, 10)

RECURSIVE RSum(_)
RSum(s) == IF s = <<>> THEN Zero ELSE RAdd(Head(s), RSum(Tail(s)))

\* np.mean of a non-empty list
Mean(s) == RDiv(RSum(s), RInt(Len(s)))

(***************************************************************************)
(* freq_to_note.  halfsteps_from_c0 = 12*log2(freq/440) + 57 is floored    *)
(* (int(h // 12), int(h % 12)): the note is the highest equal-tempered     *)
(* semitone whose frequency does not exceed freq.  NoteFloorMilliHz lists  *)
(* 440 * 2^((k-57)/12) for the octave 4 (k = 48..59) in mHz, rounded up;   *)
(* the other octaves are powers of two away.                               *)
(***************************************************************************)
notes == <<"C", "C#", "D", "D#", "E", "F", "F#", "G", "G#", "A", "A#", "B">>

NoteFloorMilliHz ==
    <<261626, 277183, 293665, 311127, 329628, 349229,
      369995, 391996, 415305, 440000, 466164, 493884>>

RECURSIVE Pow2(_)
Pow2(e) == IF e = 0 THEN 1 ELSE 2 * Pow2(e - 1)

\* semitone k (counted from C0) lies at or below freq
SemitoneAtMost(k, freq) ==
    LET octave == k \div 12
        t == NoteFloorMilliHz[(k % 12) + 1]
        \* floor(1000 * n / d), computed without leaving 32 bits
        milli(n, d) == 1000 * (n \div d) + (1000 * (n % d)) \div d
    IN  IF octave >= 4
        THEN t * Pow2(octave - 4) <= milli(freq[1], freq[2])
        ELSE t <= milli(freq[1] * Pow2(4 - octave), freq[2])

\* floor(halfsteps_from_c0) for C0 <= freq < C9
HalfstepsFromC0(freq) ==
    LET octave == CHOOSE o \in 0..8 :
                      SemitoneAtMost(12 * o, freq) /\ ~SemitoneAtMost(12 * o + 12, freq)
    IN  CHOOSE k \in (12 * octave)..(12 * octave + 11) :
            SemitoneAtMost(k, freq) /\ ~SemitoneAtMost(k + 1, freq)

freq_to_note(freq) ==
    IF RLeq(freq, Zero) THEN "C4"
    ELSE LET h == HalfstepsFromC0(freq)
         IN  notes[(h % 12) + 1] \o ToString(h \div 12)

(***************************************************************************)
(* classify_technique(freq) with formant_data = None.                      *)
(***************************************************************************)
classify_technique(freq) ==
    IF RLeq(freq, Zero) THEN "unknown"
    ELSE IF RLeq(RInt(350), freq) /\ RLeq(freq, RInt(450)) THEN "passaggio"
    ELSE IF RLess(freq, RInt(200)) THEN "chest"
    ELSE IF RLess(freq, RInt(400)) THEN "mixed"
    ELSE "head"

(***************************************************************************)
(* Analysis parameters set by VirtualListener.__init__.                    *)
(***************************************************************************)
\* a threshold of one half in the place of 0.6
min_confidence_Half == <<1, 2>>

min_confidence == <<3, 5>>
vibrato_window == 10
use_professional_analysis == TRUE

(***************************************************************************)
(* Inputs.  An engine call ends in a raised exception, a timeout (raised   *)
(* by requests as an exception), a non-200 status, or a 200 response whose *)
(* JSON carries the lists pitches and confidences.                         *)
(***************************************************************************)
FailureKinds == {"exception", "timeout", "non200"}

Failed(kind) == [kind |-> kind, pitches |-> <<>>, confidences |-> <<>>]
Ok(pitches, confidences) ==
    [kind |-> "ok", pitches |-> pitches, confidences |-> confidences]

\* what the CREPE server answers for a chunk
CrepeResponses ==
    {Failed(k) : k \in FailureKinds} \cup
    { Ok(<<RInt(440)>>, <<Rat(9, 10)>>),
      Ok(<<RInt(0), RInt(300)>>, <<Rat(9, 10), Rat(1, 2)>>) }

\* what the SPICE server answers for a chunk
SpiceResponses ==
    {Failed(k) : k \in FailureKinds} \cup
    { Ok(<<RInt(438)>>, <<Rat(4, 5)>>),
      Ok(<<RInt(196)>>, <<Rat(17, 20)>>),
      Ok(<<RInt(220)>>, <<Rat(11, 20)>>) }

\* peak amplitude and RMS of a chunk are in thousandths of full scale

\* how the professional analysis of a chunk ends: both steps return, or
\* analyze_comprehensive raises, or create_pedagogical_assessment raises
ProOutcomes == {"ok", "comprehensive_raises", "assessment_raises"}

\* a chunk that np.frombuffer decodes, with what the servers answer for it
\* samples in a chunk: chunk_size = 44100 * 2 bytes of 16-bit PCM
ChunkSamples == 44100

\* _estimate_pitch_autocorr returns sample_rate / peak_idx; here in tenths of
\* a Hz, rounded
LagPitch(peak_idx) == (441000 + peak_idx \div 2) \div peak_idx

\* the windows of _analyze_vibrato_professional:
\* range(0, len(audio_chunk) - window_size, window_size)
WindowCount(samples) ==
    LET window_size == samples \div 10
    IN  IF samples - window_size <= 0 THEN 0
        ELSE (samples - 1) \div window_size

\* a chunk whose windows all give the estimate 441.0 Hz
SteadyWindows == [i \in 1..WindowCount(ChunkSamples) |-> LagPitch(100)]

\* windows: what _estimate_pitch_autocorr gives for each window of the chunk
Frame(crepe, spice, level, pro) ==
    [decodes |-> TRUE, crepe |-> crepe, spice |-> spice, level |-> level, pro |-> pro,
     windows |-> SteadyWindows]

\* a chunk that np.frombuffer rejects (an odd number of bytes)
Undecodable == [decodes |-> FALSE]

\* a chunk's peak amplitude with an RMS of 0.7 of the peak
Level(amplitude) == [amplitude |-> amplitude, rms |-> (amplitude * 7) \div 10]

Loud == [amplitude |-> 500, rms |-> 350]
Quiet == [amplitude |-> 5, rms |-> 3]

\* The chunks a stream may deliver.  Loud chunks whose professional
\* analysis returns: every pair of answers in which at most one engine call
\* fails, and one pair in which both fail.  A quiet chunk, unvoiced or voiced.
\* A voiced chunk whose professional analysis raises.
Frames ==
    { Frame(c, s, Loud, "ok") :
        c \in {r \in CrepeResponses : r.kind = "ok"}, s \in SpiceResponses } \cup
    { Frame(c, s, Loud, "ok") :
        c \in CrepeResponses, s \in {r \in SpiceResponses : r.kind = "ok"} } \cup
    { Frame(Failed("timeout"), Failed("non200"), Loud, "ok"),
      Frame(Failed("timeout"), Failed("non200"), Quiet, "ok"),
      Frame(Ok(<<RInt(440)>>, <<Rat(9, 10)>>), Failed("exception"), Quiet, "ok") } \cup
    { Frame(Ok(<<RInt(440)>>, <<Rat(9, 10)>>), Ok(<<RInt(438)>>, <<Rat(4, 5)>>), Loud, p) :
        p \in ProOutcomes }

Durations == 1..MaxDuration

\* what simulate_listening draws for one second: nothing (random() <= 0.3)
\* or a frequency in [100, 600] and a confidence in [0.7, 0.95]
SimFreqs == {RInt(150), RInt(300)}
SimConfs == {Rat(4, 5)}

(***************************************************************************)
(* _analyze_with_crepe / _analyze_with_spice.  An Option is a sequence of  *)
(* length 0 (None) or 1; raised tells whether the call lets an exception   *)
(* escape.                                                                 *)
(***************************************************************************)
Indices(s) == 1..Len(s)

\* valid_indices, in increasing order, as a sequence
RECURSIVE ValidIndicesFrom(_, _, _)
ValidIndicesFrom(confidences, threshold, i) ==
    IF i > Len(confidences) THEN <<>>
    ELSE (IF RLess(threshold, confidences[i]) THEN <<i>> ELSE <<>>)
         \o ValidIndicesFrom(confidences, threshold, i + 1)

ValidIndices(confidences, threshold) == ValidIndicesFrom(confidences, threshold, 1)

EngineEstimate(response, source) ==
    IF response.kind = "ok" /\ response.pitches # <<>> /\ response.confidences # <<>>
    THEN LET valid_indices == ValidIndices(response.confidences, min_confidence)
         IN  IF valid_indices # <<>>
             THEN << [frequency |-> Mean([j \in Indices(valid_indices) |->
                                            response.pitches[valid_indices[j]]]),
                      confidence |-> Mean([j \in Indices(valid_indices) |->
                                            response.confidences[valid_indices[j]]]),
                      source |-> source] >>
             ELSE <<>>
    ELSE <<>>

\* a variant without the try / except: a raised exception or a timeout of
\* requests.post escapes from the call
_analyze_with_crepe_Unguarded(response) ==
    [raised |-> response.kind \in {"exception", "timeout"},
     value |-> EngineEstimate(response, "CREPE")]

_analyze_with_crepe(response) ==
    [raised |-> FALSE, value |-> EngineEstimate(response, "CREPE")]

_analyze_with_spice(response) ==
    [raised |-> FALSE, value |-> EngineEstimate(response, "SPICE")]

(***************************************************************************)
(* _detect_vibrato_advanced and _analyze_dynamics read the histories.      *)
(***************************************************************************)
LastN(s, n) == IF Len(s) <= n THEN s ELSE SubSeq(s, Len(s) - n + 1, Len(s))

\* True where consecutive pitch changes differ in sign (np.signbit)
SignFlips(pitches) ==
    { i \in 1..(Len(pitches) - 2) :
        RLess(pitches[i + 1], pitches[i]) # RLess(pitches[i + 2], pitches[i + 1]) }

SetMin(S) == CHOOSE x \in S : \A y \in S : x <= y
SetMax(S) == CHOOSE x \in S : \A y \in S : y <= x

\* the rate when every frame is taken to last a tenth of a second
VibratoRate_TenthSecondFrames(pitches, times) ==
    LET zero_crossings == SignFlips(pitches)
        n == Cardinality(zero_crossings)
        period == RMul(Rat(SetMax(zero_crossings) - SetMin(zero_crossings), n - 1),
                       Rat(times[Len(times)] - times[1], 10 * (Len(times) - 1)))
    IN  IF RLess(Zero, period) THEN RDiv(RInt(1), RMul(RInt(2), period)) ELSE Zero

\* rate = 1 / (2 * mean(diff(zero_crossings)) * mean(diff(times)))
VibratoRate(pitches, times) ==
    LET zero_crossings == SignFlips(pitches)
        n == Cardinality(zero_crossings)
        period == RMul(Rat(SetMax(zero_crossings) - SetMin(zero_crossings), n - 1),
                       Rat(times[Len(times)] - times[1], Len(times) - 1))
    IN  IF RLess(Zero, period) THEN RDiv(RInt(1), RMul(RInt(2), period)) ELSE Zero

\* The vibrato entry of a label.  The source also requires a depth of 10 to
\* 100 cents (a logarithm of the spread) for detected; only the rate condition
\* is carried, so detected here holds whenever the source's does.
_detect_vibrato_advanced(pitch_hist) ==
    IF Len(pitch_hist) < vibrato_window
    THEN [detected |-> FALSE, rate |-> Zero]
    ELSE LET recent == LastN(pitch_hist, vibrato_window)
             recent_pitches == [i \in Indices(recent) |-> recent[i].frequency]
             recent_times == [i \in Indices(recent) |-> recent[i].time]
         IN  IF Cardinality(SignFlips(recent_pitches)) > 2
             THEN LET vibrato_rate == VibratoRate(recent_pitches, recent_times)
                  IN  [detected |-> RLeq(RInt(4), vibrato_rate) /\ RLeq(vibrato_rate, RInt(7)),
                       rate |-> vibrato_rate]
             ELSE [detected |-> FALSE, rate |-> Zero]

_analyze_dynamics(current_amplitude, amp_hist) ==
    IF Len(amp_hist) < 5
    THEN [level |-> "medium", change |-> "stable", trend |-> "neutral"]
    ELSE LET recent_amps == LastN(amp_hist, 5)
             level == IF current_amplitude > 700 THEN "forte"
                      ELSE IF current_amplitude > 400 THEN "medium"
                      ELSE IF current_amplitude > 100 THEN "piano"
                      ELSE "pianissimo"
             \* change_rate = (last - first) / 5 against 0.05
             delta == recent_amps[5].amplitude - recent_amps[1].amplitude
         IN  [level |-> level,
              change |-> IF delta > 250 THEN "crescendo"
                         ELSE IF delta < -250 THEN "diminuendo" ELSE "stable",
              trend |-> IF delta > 250 THEN "rising"
                        ELSE IF delta < -250 THEN "falling" ELSE "neutral",
              amplitude |-> current_amplitude]

(***************************************************************************)
(* _create_combined_label.  analysis_results is the dict of analyze_chunk: *)
(* a function whose domain holds "crepe" / "spice" when that engine gave a *)
(* result.                                                                 *)
(***************************************************************************)
\* a variant that averages the two frequencies without the confidence weights
FusedFrequency_Unweighted(crepe_result, spice_result) ==
    RDiv(RAdd(crepe_result.frequency, spice_result.frequency), RInt(2))

FusedFrequency(crepe_result, spice_result) ==
    RDiv(RAdd(RMul(crepe_result.frequency, crepe_result.confidence),
              RMul(spice_result.frequency, spice_result.confidence)),
         RAdd(crepe_result.confidence, spice_result.confidence))

FusedConfidence(crepe_result, spice_result) ==
    RDiv(RAdd(crepe_result.confidence, spice_result.confidence), RInt(2))

\* freq, confidence and source as chosen by the if / elif / else
LabelFrequency(analysis_results) ==
    IF "crepe" \in DOMAIN analysis_results /\ "spice" \in DOMAIN analysis_results
    THEN FusedFrequency(analysis_results["crepe"], analysis_results["spice"])
    ELSE IF "crepe" \in DOMAIN analysis_results THEN analysis_results["crepe"].frequency
    ELSE analysis_results["spice"].frequency

\* a variant that halves the sum of the confidences whichever engines
\* answered, the missing engine counting as 0
LabelConfidence_AlwaysAveraged(analysis_results) ==
    RDiv(RAdd(IF "crepe" \in DOMAIN analysis_results
              THEN analysis_results["crepe"].confidence ELSE Zero,
              IF "spice" \in DOMAIN analysis_results
              THEN analysis_results["spice"].confidence ELSE Zero),
         RInt(2))

LabelConfidence(analysis_results) ==
    IF "crepe" \in DOMAIN analysis_results /\ "spice" \in DOMAIN analysis_results
    THEN FusedConfidence(analysis_results["crepe"], analysis_results["spice"])
    ELSE IF "crepe" \in DOMAIN analysis_results THEN analysis_results["crepe"].confidence
    ELSE analysis_results["spice"].confidence

LabelSource(analysis_results) ==
    IF "crepe" \in DOMAIN analysis_results /\ "spice" \in DOMAIN analysis_results
    THEN "CREPE+SPICE"
    ELSE IF "crepe" \in DOMAIN analysis_results THEN "CREPE" ELSE "SPICE"

\* the label as an Option: <<>> is None
_create_combined_label(analysis_results, time_offset, amplitude, pitch_hist, amp_hist) ==
    IF DOMAIN analysis_results = {} THEN <<>>
    ELSE LET freq == LabelFrequency(analysis_results)
         IN  << [time |-> time_offset,
                 frequency |-> freq,
                 note |-> freq_to_note(freq),
                 confidence |-> LabelConfidence(analysis_results),
                 technique |-> classify_technique(freq),
                 vibrato |-> _detect_vibrato_advanced(pitch_hist),
                 dynamics |-> _analyze_dynamics(amplitude, amp_hist),
                 amplitude |-> amplitude,
                 source |-> LabelSource(analysis_results)] >>

(***************************************************************************)
(* State.  The first six variables are the fields of the one listener      *)
(* object; db is the label store; the others are per request handler.      *)
(***************************************************************************)
VARIABLES
    labels,                  \* self.labels
    pitch_history,           \* self.pitch_history
    amplitude_history,       \* self.amplitude_history
    breath_positions,        \* self.breath_positions
    comprehensive_labels,    \* self.comprehensive_labels
    pedagogical_assessments, \* self.pedagogical_assessments
    db,                      \* rows stored by save_label
    pc,                      \* where each handler stands in virtual_listen
    duration,                \* max_duration of the handler's request
    time_offset,             \* loop counter of listen_and_analyze / simulate_listening
    chunk,                   \* Option: the chunk the handler read last
    fallback,                \* why simulate_listening was entered, "none" if it was not
    result,                  \* Option: what virtual_listen returned
    heard,                   \* history: the labels analyze_chunk built for the handler's own chunks
    call,                    \* the arguments of the functions called on their own, in call order
    returned                 \* what these calls returned, in call order

listener == <<labels, pitch_history, amplitude_history, breath_positions,
              comprehensive_labels, pedagogical_assessments>>
vars == <<labels, pitch_history, amplitude_history, breath_positions,
          comprehensive_labels, pedagogical_assessments, db,
          pc, duration, time_offset, chunk, fallback, result, heard,
          call, returned>>

\* the requests served by the process
Sessions == {1, 2}

\* the listener as VirtualListener() builds it, no request being served
InitListener ==
    /\ labels = <<>>
    /\ pitch_history = <<>>
    /\ amplitude_history = <<>>
    /\ breath_positions = <<>>
    /\ comprehensive_labels = <<>>
    /\ pedagogical_assessments = <<>>
    /\ db = <<>>
    /\ pc = [s \in Sessions |-> "idle"]
    /\ duration = [s \in Sessions |-> 0]
    /\ time_offset = [s \in Sessions |-> 0]
    /\ chunk = [s \in Sessions |-> <<>>]
    /\ fallback = [s \in Sessions |-> "none"]
    /\ result = [s \in Sessions |-> <<>>]
    /\ heard = [s \in Sessions |-> <<>>]

Init ==
    /\ InitListener
    /\ call = <<>>
    /\ returned = <<>>

(***************************************************************************)
(* analyze_chunk.                                                          *)
(***************************************************************************)
\* the dict analysis_results after steps 1 and 2
AnalysisResults(frame) ==
    LET crepe_result == _analyze_with_crepe(frame.crepe).value
        spice_result == _analyze_with_spice(frame.spice).value
    IN  [k \in (IF crepe_result # <<>> THEN {"crepe"} ELSE {}) \cup
               (IF spice_result # <<>> THEN {"spice"} ELSE {}) |->
           IF k = "crepe" THEN crepe_result[1] ELSE spice_result[1]]

\* an engine call lets an exception escape from analyze_chunk
EngineCallRaises(frame) ==
    _analyze_with_crepe(frame.crepe).raised \/ _analyze_with_spice(frame.spice).raised

\* zero_crossings of _analyze_vibrato_professional: the sign changes of
\* np.diff(pitch_variations)
SignChanges(pitch_variations) ==
    Cardinality({ i \in 1..(Len(pitch_variations) - 2) :
                    (pitch_variations[i + 1] < pitch_variations[i])
                      # (pitch_variations[i + 2] < pitch_variations[i + 1]) })

RECURSIVE IntSum(_)
IntSum(seq) == IF seq = <<>> THEN 0 ELSE Head(seq) + IntSum(Tail(seq))

\* _analyze_vibrato_professional on a chunk of the given number of samples
\* whose windows give the estimates windows (tenths of a Hz).  With n values
\* of sum S and variance V / n^2, where V = n * sum(d^2) - sum(d)^2 over the
\* deviations d from the first value:
\*   0.01 < std / mean < 0.1        is  S^2 < 10000 * V  and  100 * V < S^2
\*   pitch_std > 2                  is  V > 400 * n^2
\*   20 <= extent <= 100 (cents)    is  S^2 <= 7407 * V  and  283 * V <= S^2
\* (2^(20/1200) - 1 and 2^(100/1200) - 1 squared are 1/7407 and 1/283).
_analyze_vibrato_professional(samples, windows) ==
    IF samples < 1024 THEN [detected |-> FALSE, rate |-> Zero, type |-> "none"]
    ELSE LET pitch_variations == SelectSeq(windows, LAMBDA x : x > 0)
             n == Len(pitch_variations)
         IN  IF n < 5
             THEN [detected |-> FALSE, rate |-> Zero, type |-> "insufficient_data"]
             ELSE LET d == [i \in 1..n |-> pitch_variations[i] - pitch_variations[1]]
                      S == IntSum(pitch_variations)
                      V == n * IntSum([i \in 1..n |-> d[i] * d[i]]) - IntSum(d) * IntSum(d)
                      zero_crossings == SignChanges(pitch_variations)
                      is_vibrato == /\ V > (S * S) \div 10000
                                    /\ 100 * V < S * S
                                    /\ zero_crossings >= 4
                                    /\ V > 400 * n * n
                      vibrato_rate == Rat(zero_crossings, 2)
                      natural_extent == /\ V >= (S * S + 7406) \div 7407
                                        /\ 283 * V <= S * S
                  IN  IF is_vibrato
                      THEN [detected |-> TRUE,
                            rate |-> vibrato_rate,
                            type |-> IF /\ RLeq(RInt(4), vibrato_rate)
                                        /\ RLeq(vibrato_rate, RInt(7))
                                        /\ natural_extent THEN "natural"
                                     ELSE IF RLess(RInt(8), vibrato_rate) THEN "tremolo"
                                     ELSE IF RLess(vibrato_rate, RInt(3)) THEN "wobble"
                                     ELSE "irregular"]
                      ELSE [detected |-> FALSE, rate |-> Zero, type |-> "straight_tone"]

\* _calculate_spectral_centroid: sum(freqs * magnitude) / sum(magnitude) of
\* the chunk's spectrum, 1000 when the magnitudes sum to 0.  An audio chunk is
\* given by these two sums.
_calculate_spectral_centroid(audio_chunk) ==
    IF audio_chunk.magnitude > 0
    THEN Rat(audio_chunk.weighted, audio_chunk.magnitude)
    ELSE RInt(1000)

\* a variant that also consults the spectrum from 1400 Hz up
_classify_register_advanced_Spectral(frequency, formants, audio_chunk) ==
    IF frequency <= 0 THEN "unknown"
    ELSE IF frequency < 80 THEN "vocal_fry"
    ELSE IF frequency < 200 THEN "chest"
    ELSE IF frequency < 350
         THEN IF formants.f1 > 600 /\ RLess(Rat(3, 10), formants.singers_formant)
              THEN "chest" ELSE "mixed"
    ELSE IF frequency < 700
         THEN IF formants.f1 < 400 /\ formants.f2 > 2000 THEN "head" ELSE "mixed"
    ELSE IF frequency < 2000
         THEN IF RLess(RInt(2000), _calculate_spectral_centroid(audio_chunk))
              THEN "head" ELSE "falsetto"
    ELSE IF RLess(RInt(2000), _calculate_spectral_centroid(audio_chunk))
         THEN "whistle" ELSE "head"

_classify_register_advanced(frequency, formants, audio_chunk) ==
    IF frequency <= 0 THEN "unknown"
    ELSE IF frequency < 80 THEN "vocal_fry"
    ELSE IF frequency < 200 THEN "chest"
    ELSE IF frequency < 350
         THEN IF formants.f1 > 600 /\ RLess(Rat(3, 10), formants.singers_formant)
              THEN "chest" ELSE "mixed"
    ELSE IF frequency < 700
         THEN IF formants.f1 > 500 /\ formants.f2 < 1800 THEN "mixed"
              ELSE IF formants.f1 < 400 /\ formants.f2 > 2000 THEN "head"
              ELSE "mixed"
    ELSE IF frequency < 1400
         THEN IF RLess(RInt(2000), _calculate_spectral_centroid(audio_chunk))
              THEN "head" ELSE "falsetto"
    ELSE IF frequency >= 2000 THEN "whistle"
    ELSE "head"

\* self.vowel_formants in insertion order: vowel, f1_ref, f2_ref
vowel_formants ==
    << <<"A_OPEN", 850, 1220>>, <<"A_FRONT", 750, 1700>>, <<"E_OPEN", 610, 1900>>,
       <<"E_CLOSE", 390, 2300>>, <<"I", 310, 2790>>, <<"O_OPEN", 500, 1000>>,
       <<"O_CLOSE", 360, 750>>, <<"U", 320, 800>>, <<"SCHWA", 500, 1500>> >>

\* the square of the distance of _classify_vowel_shape to the i-th vowel
VowelDistance2(formants, i) ==
    (formants.f1 - vowel_formants[i][2]) * (formants.f1 - vowel_formants[i][2])
      + (formants.f2 - vowel_formants[i][3]) * (formants.f2 - vowel_formants[i][3])

\* the loop of _classify_vowel_shape from the i-th table entry on;
\* min_distance2 = -1 stands for float('inf')
RECURSIVE VowelScan(_, _, _, _)
VowelScan(formants, i, min_distance2, best_vowel) ==
    IF i > Len(vowel_formants)
    THEN [min_distance2 |-> min_distance2, best_vowel |-> best_vowel]
    ELSE IF min_distance2 = -1 \/ VowelDistance2(formants, i) < min_distance2
         THEN VowelScan(formants, i + 1, VowelDistance2(formants, i), vowel_formants[i][1])
         ELSE VowelScan(formants, i + 1, min_distance2, best_vowel)

\* the loop with "distance <= min_distance": a later vowel replaces an
\* equally near earlier one
RECURSIVE VowelScan_LastNearest(_, _, _, _)
VowelScan_LastNearest(formants, i, min_distance2, best_vowel) ==
    IF i > Len(vowel_formants)
    THEN [min_distance2 |-> min_distance2, best_vowel |-> best_vowel]
    ELSE IF min_distance2 = -1 \/ VowelDistance2(formants, i) <= min_distance2
         THEN VowelScan_LastNearest(formants, i + 1, VowelDistance2(formants, i),
                                    vowel_formants[i][1])
         ELSE VowelScan_LastNearest(formants, i + 1, min_distance2, best_vowel)

_classify_vowel_shape_LastNearest(formants) ==
    LET scan == VowelScan_LastNearest(formants, 1, -1, "SCHWA")
    IN  IF scan.min_distance2 > 400 * 400 THEN "MIXED" ELSE scan.best_vowel

\* the first vowel at the least distance; MIXED when that distance is over 400
_classify_vowel_shape(formants) ==
    LET scan == VowelScan(formants, 1, -1, "SCHWA")
    IN  IF scan.min_distance2 > 400 * 400 THEN "MIXED" ELSE scan.best_vowel

\* _analyze_pitch_comprehensive: the professional analyzer asks CREPE itself
\* and keeps the pitches above confidence 0.7; frequency 0 otherwise
ProPitch(frame) ==
    LET ok == /\ frame.crepe.kind = "ok" /\ frame.spice.kind # "exception"
              /\ frame.spice.kind # "timeout"
        high == IF ok THEN ValidIndices(frame.crepe.confidences, Rat(7, 10)) ELSE <<>>
    IN  IF high # <<>>
        THEN [frequency |-> Mean([j \in Indices(high) |-> frame.crepe.pitches[high[j]]]),
              confidence |-> Mean([j \in Indices(high) |-> frame.crepe.confidences[high[j]]])]
        ELSE [frequency |-> Zero, confidence |-> Zero]

\* the score of _assess_pitch_accuracy for a deviation in cents, rounded to
\* one decimal
PitchAccuracyScore(cents_deviation) ==
    Round1(IF RLess(cents_deviation, RInt(10))
           THEN RAdd(RInt(95), RSub(RInt(10), cents_deviation))
           ELSE IF RLess(cents_deviation, RInt(25))
           THEN RAdd(RInt(80), RMul(RSub(RInt(25), cents_deviation), Rat(3, 5)))
           ELSE IF RLess(cents_deviation, RInt(50))
           THEN RAdd(RInt(60), RMul(RSub(RInt(50), cents_deviation), Rat(2, 5)))
           ELSE RMax(RInt(30),
                     RSub(RInt(60), RMul(RSub(cents_deviation, RInt(50)), Rat(1, 5)))))

\* _assess_pitch_accuracy reads the deviation from the part of label.note
\* behind a '_'; the note of a comprehensive label is '' or one of the twelve
\* note names, none of which holds a '_', so the deviation is 0
_assess_pitch_accuracy ==
    [score |-> PitchAccuracyScore(Zero), cents_deviation |-> Zero]

\* create_pedagogical_assessment, as far as the pitch accuracy goes
create_pedagogical_assessment(timestamp) ==
    [timestamp |-> timestamp, pitch_accuracy |-> _assess_pitch_accuracy]

\* a variant that records the amplitude of voiced chunks only
NewAmplitudeHistory_VoicedOnly(frame, t) ==
    IF DOMAIN AnalysisResults(frame) = {}
    THEN amplitude_history
    ELSE Append(amplitude_history,
                [time |-> t, amplitude |-> frame.level.amplitude, rms |-> frame.level.rms])

NewAmplitudeHistory(frame, t) ==
    Append(amplitude_history,
           [time |-> t, amplitude |-> frame.level.amplitude, rms |-> frame.level.rms])

\* a variant that analyses the dynamics before the chunk's amplitude is recorded
CombinedLabel_StaleAmplitude(frame, t) ==
    _create_combined_label(AnalysisResults(frame), t, frame.level.amplitude,
                           pitch_history, amplitude_history)

\* a variant that stamps every label with offset 0 instead of the chunk's
CombinedLabel_Unstamped(frame, t) ==
    _create_combined_label(AnalysisResults(frame), 0, frame.level.amplitude,
                           pitch_history, NewAmplitudeHistory(frame, t))

\* the label of step 5, as an Option
CombinedLabel(frame, t) ==
    _create_combined_label(AnalysisResults(frame), t, frame.level.amplitude,
                           pitch_history, NewAmplitudeHistory(frame, t))

\* step 6: amplitude < 0.01, more than 5 amplitudes, the last 5 all < 0.02
BreathDetected(frame, t) ==
    LET hist == NewAmplitudeHistory(frame, t)
    IN  /\ frame.level.amplitude < 10
        /\ Len(hist) > 5
        /\ \A i \in (Len(hist) - 4)..Len(hist) : hist[i].amplitude < 20

analyze_chunk(frame, t) ==
    LET analysis_results == AnalysisResults(frame)
        combined_label == CombinedLabel(frame, t)
        pro == use_professional_analysis /\ DOMAIN analysis_results # {}
    IN  /\ amplitude_history' = NewAmplitudeHistory(frame, t)
        /\ comprehensive_labels' =
             IF pro /\ frame.pro # "comprehensive_raises"
             THEN Append(comprehensive_labels,
                         [timestamp |-> t,
                          fundamental_frequency |-> ProPitch(frame).frequency,
                          vibrato |-> _analyze_vibrato_professional(ChunkSamples, frame.windows),
                          confidence |-> ProPitch(frame).confidence])
             ELSE comprehensive_labels
        /\ pedagogical_assessments' =
             IF pro /\ frame.pro = "ok"
             THEN Append(pedagogical_assessments, create_pedagogical_assessment(t))
             ELSE pedagogical_assessments
        /\ labels' = labels \o combined_label
        /\ pitch_history' =
             IF combined_label # <<>> /\ RLess(Zero, combined_label[1].frequency)
             THEN Append(pitch_history,
                         [time |-> t,
                          frequency |-> combined_label[1].frequency,
                          confidence |-> combined_label[1].confidence])
             ELSE pitch_history
        /\ breath_positions' =
             IF BreathDetected(frame, t) THEN Append(breath_positions, t)
             ELSE breath_positions

(***************************************************************************)
(* generate_analysis and save_label, as far as the session summary goes.   *)
(***************************************************************************)
Min(a, b) == IF a <= b THEN a ELSE b

\* dict.get(key, default)
Get(dict, key, default) == IF key \in DOMAIN dict THEN dict[key] ELSE default

\* the grade of _calculate_performance_score, decided on the unrounded total
Grade(total_score) ==
    IF RLeq(RInt(90), total_score) THEN "S"
    ELSE IF RLeq(RInt(80), total_score) THEN "A"
    ELSE IF RLeq(RInt(70), total_score) THEN "B"
    ELSE IF RLeq(RInt(60), total_score) THEN "C"
    ELSE "D"

\* score_breakdown as a sequence in the order the components are set
ComponentNames ==
    <<"pitch_accuracy", "technique_variety", "vibrato_quality",
      "dynamics_control", "breath_support", "passaggio_handling">>

\* the minimum of each component in _generate_recommendations, in the order
\* of its if statements
ComponentMinimum ==
    [pitch_accuracy |-> 20, technique_variety |-> 15, vibrato_quality |-> 10,
     dynamics_control |-> 10, breath_support |-> 10, passaggio_handling |-> 5]

\* the rule list without the closing "if not recommendations"
_generate_recommendations_NoPraise(score_components) ==
    LET Rule(name) == IF RLess(Get(score_components, name, Zero), RInt(ComponentMinimum[name]))
                      THEN <<name>> ELSE <<>>
    IN  Rule("pitch_accuracy") \o Rule("technique_variety") \o Rule("vibrato_quality")
          \o Rule("dynamics_control") \o Rule("breath_support") \o Rule("passaggio_handling")

\* _generate_recommendations: a message stands as the name of the component
\* it is about, the closing message as "keep_current_level"
_generate_recommendations(score_components) ==
    LET Rule(name) == IF RLess(Get(score_components, name, Zero), RInt(ComponentMinimum[name]))
                      THEN <<name>> ELSE <<>>
        recommendations ==
            Rule("pitch_accuracy") \o Rule("technique_variety") \o Rule("vibrato_quality")
              \o Rule("dynamics_control") \o Rule("breath_support") \o Rule("passaggio_handling")
    IN  IF recommendations = <<>> THEN <<"keep_current_level">> ELSE recommendations

_calculate_performance_score(basic_stats, advanced_stats) ==
    LET confidence_avg == Get(basic_stats, "confidence_avg", Zero)
        pitch_score == RMin(RMul(confidence_avg, RInt(25)), RInt(25))
        variety_score == Get(Get(advanced_stats, "technique_analysis", <<>>), "variety_score", 0)
        technique_score == RInt(Min(variety_score * 5, 20))
        vibrato_analysis == Get(advanced_stats, "vibrato_analysis", <<>>)
        vibrato_score ==
            IF Get(vibrato_analysis, "detected", FALSE)
            THEN LET vibrato_rate == Get(vibrato_analysis, "average_rate", Zero)
                     vibrato_depth == Get(vibrato_analysis, "average_depth", Zero)
                     vibrato_consistency == Get(vibrato_analysis, "consistency", Zero)
                     rate_score ==
                        RMax(Zero, RSub(RInt(10),
                                        RMul(RAbs(RSub(vibrato_rate, Rat(11, 2))), RInt(2))))
                     depth_score ==
                        RMax(Zero, RSub(RInt(5),
                                        RMul(RAbs(RSub(vibrato_depth, RInt(50))), Rat(1, 10))))
                 IN  RAdd(RAdd(rate_score, depth_score), RMul(vibrato_consistency, RInt(5)))
            ELSE RInt(5)
        dynamic_variety == Get(Get(advanced_stats, "dynamics_analysis", <<>>), "dynamic_variety", 0)
        dynamics_score == RInt(Min(dynamic_variety * 5, 15))
        breath_score ==
            RMul(RInt(Get(Get(advanced_stats, "breath_analysis", <<>>),
                          "breath_support_score", 70) - 70), Rat(1, 2))
        transitions == Get(Get(advanced_stats, "passaggio_analysis", <<>>),
                           "detected_transitions", 0)
        passaggio_score == RInt(Min(transitions * 5, 10))
        score_components ==
            [pitch_accuracy |-> pitch_score,
             technique_variety |-> technique_score,
             vibrato_quality |-> RMin(vibrato_score, RInt(15)),
             dynamics_control |-> dynamics_score,
             breath_support |-> RMax(Zero, RMin(breath_score, RInt(15))),
             passaggio_handling |-> passaggio_score]
        total_score == RSum([i \in Indices(ComponentNames) |-> score_components[ComponentNames[i]]])
    IN  [total_score |-> Round1(total_score),
         grade |-> Grade(total_score),
         score_breakdown |-> score_components,
         recommendations |-> _generate_recommendations(score_components)]

\* the techniques that occur most often among the labels: max(set(techniques),
\* key=techniques.count) returns the first of them in the iteration order of
\* a set of strings, which differs from one interpreter process to another
MainTechniques ==
    LET count(tech) == Cardinality({i \in Indices(labels) : labels[i].technique = tech})
        techniques == {labels[i].technique : i \in Indices(labels)}
    IN  IF labels = <<>> THEN {"Unknown"}
        ELSE {tech \in techniques : \A other \in techniques : count(other) <= count(tech)}

\* basic_stats of generate_analysis
BasicStats(main_technique) ==
    [detected_notes |-> Len(labels),
     average_pitch |->
        LET voiced == {i \in Indices(labels) : RLess(Zero, labels[i].frequency)}
            frequencies == [j \in 1..Cardinality(voiced) |->
                              labels[CHOOSE i \in voiced :
                                         Cardinality({k \in voiced : k <= i}) = j].frequency]
        IN  IF voiced = {} THEN "Unknown" ELSE freq_to_note(Mean(frequencies)),
     main_technique |-> main_technique,
     confidence_avg |-> Mean([i \in Indices(labels) |-> labels[i].confidence])]

\* advanced_stats of generate_analysis before overall_performance is added.
\* vibrato_analysis and dynamics_analysis exist only when a label carries a
\* vibrato / dynamics entry (the labels of simulate_listening carry none).
\* The vibrato entries of the labels hold no depth and no consistency here;
\* the score reads them only when detected is True.
AdvancedStats ==
    LET with_vibrato == {i \in Indices(labels) : "vibrato" \in DOMAIN labels[i]}
        with_dynamics == {i \in Indices(labels) : "dynamics" \in DOMAIN labels[i]}
        rates == {i \in with_vibrato : RLess(Zero, labels[i].vibrato.rate)}
        RateSum[S \in SUBSET rates] ==
            IF S = {} THEN Zero
            ELSE LET i == CHOOSE x \in S : TRUE
                 IN  RAdd(labels[i].vibrato.rate, RateSum[S \ {i}])
    IN  (IF with_vibrato = {} THEN <<>>
         ELSE [vibrato_analysis |->
                 [detected |-> \E i \in with_vibrato : labels[i].vibrato.detected,
                  average_rate |-> IF rates = {} THEN Zero
                                   ELSE RDiv(RateSum[rates], RInt(Cardinality(rates)))]])
        @@ (IF with_dynamics = {} THEN <<>>
            ELSE [dynamics_analysis |->
                    [dynamic_variety |->
                        Cardinality({labels[i].dynamics.change : i \in with_dynamics})]])
        @@ [breath_analysis |->
              [breath_positions |-> Len(breath_positions),
               breathing_pattern |-> IF Len(breath_positions) > 2 THEN "regular"
                                     ELSE "infrequent",
               breath_support_score |-> Min(85 + Len(breath_positions) * 2, 100)],
            passaggio_analysis |->
              [detected_transitions |->
                  Cardinality({i \in Indices(labels) : labels[i].technique = "passaggio"})],
            technique_analysis |->
              [variety_score |-> Cardinality({labels[i].technique : i \in Indices(labels)})]]

\* main_technique is the one of MainTechniques that max() returned
generate_analysis(main_technique) ==
    LET basic_stats == BasicStats(main_technique)
        advanced_stats == AdvancedStats
    IN  basic_stats @@ advanced_stats
          @@ [overall_performance |->
                _calculate_performance_score(basic_stats, advanced_stats)]

\* json.dumps(pitch_data) rejects the numpy float32 that analyze_chunk stores
\* as a label's amplitude; the labels of simulate_listening hold no amplitude
Serialisable(pitch_data) ==
    \A i \in Indices(pitch_data) : "amplitude" \notin DOMAIN pitch_data[i]

SaveOutcomes == {"stored", "store_fails"}

(***************************************************************************)
(* The vocal_labels table.  A Python value bound to a statement and a      *)
(* value held in a column both carry their storage class.                  *)
(***************************************************************************)
PyInt(n) == [type |-> "integer", value |-> n]
PyFloat(x) == [type |-> "real", value |-> x]
PyStr(text) == [type |-> "text", value |-> text]

\* the texts, among those this program binds, that are well-formed numeric
\* literals; a note name, a technique name and 'Unknown' are not
NumericTexts == {ToString(n) : n \in 0..9}

NumericValue(text) == CHOOSE n \in 0..9 : ToString(n) = text

\* a column that turns every text into a number, as CAST(x AS REAL) does:
\* a text without a numeric prefix becomes 0.0
ColumnAffinity_Cast(affinity, bound) ==
    IF affinity = "TEXT" THEN bound
    ELSE IF bound.type = "text"
         THEN IF bound.value \in NumericTexts
              THEN PyFloat(RInt(NumericValue(bound.value)))
              ELSE PyFloat(Zero)
         ELSE bound

\* type affinity of the declared column type: a REAL or INTEGER column
\* converts a text only when it is a well-formed numeric literal and keeps it
\* as text otherwise; a REAL column holds an integer as a real, an INTEGER
\* column holds a real without fraction as an integer
ColumnAffinity(affinity, bound) ==
    IF affinity = "TEXT" THEN bound
    ELSE IF bound.type = "text"
         THEN IF bound.value \in NumericTexts
              THEN IF affinity = "REAL"
                   THEN PyFloat(RInt(NumericValue(bound.value)))
                   ELSE PyInt(NumericValue(bound.value))
              ELSE bound
         ELSE IF affinity = "REAL" /\ bound.type = "integer"
              THEN PyFloat(RInt(bound.value))
         ELSE IF affinity = "INTEGER" /\ bound.type = "real" /\ bound.value[2] = 1
              THEN PyInt(bound.value[1])
         ELSE bound

\* the label_data that virtual_listen prepares from the analysis
LabelData(analysis) ==
    [detected_notes |-> PyInt(Get(analysis, "detected_notes", 0)),
     average_pitch |-> PyStr(Get(analysis, "average_pitch", "")),
     main_technique |-> PyStr(Get(analysis, "main_technique", "")),
     confidence_avg |-> PyFloat(Get(analysis, "confidence_avg", Zero)),
     pitch_data |-> labels]

\* save_label: the row that the INSERT leaves in vocal_labels
save_label(label_id, label_data) ==
    [id |-> label_id,
     detected_notes |-> ColumnAffinity("INTEGER", label_data.detected_notes),
     average_pitch |-> ColumnAffinity("REAL", label_data.average_pitch),
     main_technique |-> ColumnAffinity("TEXT", label_data.main_technique),
     confidence_avg |-> ColumnAffinity("REAL", label_data.confidence_avg),
     pitch_data |-> label_data.pitch_data]

\* _row_to_dict: the columns under their names, each value as the Python
\* value of its storage class; pitch_data is parsed back into the labels
_row_to_dict(row) ==
    [id |-> row.id,
     detected_notes |-> row.detected_notes,
     average_pitch |-> row.average_pitch,
     main_technique |-> row.main_technique,
     confidence_avg |-> row.confidence_avg,
     pitch_data |-> row.pitch_data]

\* get_label: an Option, empty when no row has the id
get_label(label_id) ==
    IF label_id \in 1..Len(db) THEN << _row_to_dict(db[label_id]) >> ELSE <<>>

\* get_recent_labels: the newest rows first
get_recent_labels(limit) ==
    [j \in 1..Min(limit, Len(db)) |-> _row_to_dict(db[Len(db) + 1 - j])]

(***************************************************************************)
(* One request: virtual_listen, listen_and_analyze, simulate_listening.    *)
(***************************************************************************)
\* virtual_listen up to the call of listen_and_analyze: get_stream_url
\* always returns stream data, then labels is reset
Request(s, max_duration) ==
    /\ pc[s] = "idle"
    /\ labels' = <<>>
    /\ duration' = [duration EXCEPT ![s] = max_duration]
    /\ pc' = [pc EXCEPT ![s] = "servers"]
    /\ UNCHANGED <<call, returned, pitch_history, amplitude_history, breath_positions,
                   comprehensive_labels, pedagogical_assessments, db,
                   time_offset, chunk, fallback, result, heard>>

\* _check_analysis_servers and the ffmpeg check
ServerChecks == {"ready", "servers_down", "no_ffmpeg"}

CheckServers(s, check) ==
    /\ pc[s] = "servers"
    /\ pc' = [pc EXCEPT ![s] = IF check = "ready" THEN "stream" ELSE "simulate"]
    /\ fallback' = [fallback EXCEPT ![s] = IF check = "ready" THEN "none" ELSE check]
    /\ time_offset' = [time_offset EXCEPT ![s] = 0]
    /\ UNCHANGED <<call, returned, listener, db, duration, chunk, result, heard>>

\* One pass of the while loop with a chunk read from ffmpeg.  The chunk is
\* decoded and analysed; if np.frombuffer or analyze_chunk raises, the except
\* clause of listen_and_analyze calls simulate_listening(duration).
ListenChunkUpTo(s, read, max_frames) ==
    /\ pc[s] = "stream"
    /\ time_offset[s] < duration[s]
    /\ chunk' = [chunk EXCEPT ![s] = <<read>>]
    /\ IF read.decodes /\ ~EngineCallRaises(read)
       THEN /\ Len(amplitude_history) < max_frames
            /\ analyze_chunk(read, time_offset[s])
            /\ heard' = [heard EXCEPT ![s] = @ \o CombinedLabel(read, time_offset[s])]
            /\ time_offset' = [time_offset EXCEPT ![s] = @ + 1]
            /\ UNCHANGED <<call, returned, db, pc, duration, fallback, result>>
       ELSE /\ pc' = [pc EXCEPT ![s] = "simulate"]
            /\ fallback' = [fallback EXCEPT ![s] = "stream_error"]
            /\ time_offset' = [time_offset EXCEPT ![s] = 0]
            /\ UNCHANGED <<call, returned, listener, db, duration, result, heard>>

ListenChunk(s, read) == ListenChunkUpTo(s, read, MaxFrames)

StreamChunk(s, chunks) == \E read \in chunks : ListenChunk(s, read)

MalformedChunk(s) == ListenChunk(s, Undecodable)

\* the read returns no bytes, or duration chunks have been analysed
StreamEnd(s) ==
    /\ pc[s] = "stream"
    /\ pc' = [pc EXCEPT ![s] = "summarise"]
    /\ UNCHANGED <<call, returned, listener, db, duration, time_offset, chunk, fallback, result, heard>>

\* one second of simulate_listening; detected is random() > 0.3
SimulateSecond(s, detected, freq, conf) ==
    /\ pc[s] = "simulate"
    /\ time_offset[s] < duration[s]
    /\ labels' = IF detected
                 THEN Append(labels, [time |-> time_offset[s],
                                      frequency |-> freq,
                                      note |-> freq_to_note(freq),
                                      confidence |-> conf,
                                      technique |-> classify_technique(freq)])
                 ELSE labels
    /\ time_offset' = [time_offset EXCEPT ![s] = @ + 1]
    /\ pc' = [pc EXCEPT ![s] = IF time_offset[s] + 1 = duration[s]
                               THEN "summarise" ELSE "simulate"]
    /\ UNCHANGED <<call, returned, pitch_history, amplitude_history, breath_positions,
                   comprehensive_labels, pedagogical_assessments, db,
                   duration, chunk, fallback, result, heard>>

\* What virtual_listen would hand back if the exception of save_label were
\* not caught: nothing on a failed save
SessionResult_SaveUncaught(s, analysis, stored) ==
    IF stored
    THEN << [duration_analyzed |-> duration[s],
             labels |-> labels,
             analysis |-> analysis,
             has_database_id |-> TRUE] >>
    ELSE <<>>

\* the result dict of virtual_listen; database_id is set only after
\* save_label returned, and the except clause swallows its exception
SessionResult(s, analysis, stored) ==
    << [duration_analyzed |-> duration[s],
        labels |-> labels,
        analysis |-> analysis,
        has_database_id |-> stored] >>

\* virtual_listen after listen_and_analyze: the result and the save
Summarise(s, save, main_technique) ==
    /\ pc[s] = "summarise"
    /\ pc' = [pc EXCEPT ![s] = "done"]
    /\ IF labels # <<>>
       THEN LET analysis == generate_analysis(main_technique)
                stored == save = "stored" /\ Serialisable(labels)
            IN  /\ result' = [result EXCEPT ![s] = SessionResult(s, analysis, stored)]
                /\ db' = IF stored
                         THEN Append(db, save_label(Len(db) + 1, LabelData(analysis)))
                         ELSE db
       ELSE /\ result' = [result EXCEPT ![s] = <<>>]
            /\ db' = db
    /\ UNCHANGED <<call, returned, listener, duration, time_offset, chunk, fallback, heard>>

\* listen_youtube answers (the result, or an error status); the handler's
\* locals are gone
Respond(s) ==
    /\ pc[s] = "done"
    /\ pc' = [pc EXCEPT ![s] = "closed"]
    /\ duration' = [duration EXCEPT ![s] = 0]
    /\ time_offset' = [time_offset EXCEPT ![s] = 0]
    /\ chunk' = [chunk EXCEPT ![s] = <<>>]
    /\ fallback' = [fallback EXCEPT ![s] = "none"]
    /\ result' = [result EXCEPT ![s] = <<>>]
    /\ heard' = [heard EXCEPT ![s] = <<>>]
    /\ UNCHANGED <<call, returned, listener, db>>

Listen(s, chunks) ==
    \/ \E check \in ServerChecks : CheckServers(s, check)
    \/ StreamChunk(s, chunks)
    \/ MalformedChunk(s)
    \/ StreamEnd(s)
    \/ \E detected \in BOOLEAN, freq \in SimFreqs, conf \in SimConfs :
          SimulateSecond(s, detected, freq, conf)
    \/ \E save \in SaveOutcomes, main_technique \in MainTechniques :
          Summarise(s, save, main_technique)
    \/ Respond(s)

\* The first request that the freshly constructed listener serves.
Next ==
    \/ \E max_duration \in Durations : Request(1, max_duration)
    \/ Listen(1, Frames)

Spec == Init /\ [][Next]_vars

\* Two /listen requests, one after the other or served at the same time by
\* the threaded server, each step of a handler interleaved with the other's.
ConcurrentFrames ==
    { Frame(Ok(<<RInt(440)>>, <<Rat(9, 10)>>), Ok(<<RInt(438)>>, <<Rat(4, 5)>>), Loud, "ok"),
      Frame(Failed("timeout"), Failed("non200"), Quiet, "ok") }

NextConcurrent ==
    \E s \in Sessions :
        \/ \E max_duration \in Durations : Request(s, max_duration)
        \/ Listen(s, ConcurrentFrames)

SpecConcurrent == Init /\ [][NextConcurrent]_vars

\* One session of MaxBreathFrames chunks with no voiced pitch (both engine
\* calls fail), at peak amplitudes 0.5, 0.4, 0.01 and 0.005.
BreathFrames ==
    { Frame(Failed("timeout"), Failed("non200"), Level(a), "ok") : a \in {500, 400, 10, 5} }

NextBreath ==
    \/ Request(1, MaxBreathFrames)
    \/ CheckServers(1, "ready")
    \/ \E read \in BreathFrames : ListenChunkUpTo(1, read, MaxBreathFrames)
    \/ StreamEnd(1)
    \/ \E main_technique \in MainTechniques : Summarise(1, "stored", main_technique)
    \/ Respond(1)

SpecBreath == Init /\ [][NextBreath]_vars

\* The first streaming session of a fresh listener, long enough for
\* _detect_vibrato_advanced to look at vibrato_window pitches: chunks that
\* CREPE alone labels with one of two pitches.
PitchFrames ==
    { Frame(Ok(<<RInt(f)>>, <<Rat(9, 10)>>), Failed("timeout"), Loud, "comprehensive_raises") :
        f \in {440, 466} }

NextFirstSession ==
    \/ Request(1, MaxVibratoFrames)
    \/ CheckServers(1, "ready")
    \/ \E read \in PitchFrames : ListenChunkUpTo(1, read, MaxVibratoFrames)
    \/ StreamEnd(1)
    \/ \E main_technique \in MainTechniques : Summarise(1, "stored", main_technique)
    \/ Respond(1)

SpecFirstSession == Init /\ [][NextFirstSession]_vars

\* One session of MaxVibratoFrames voiced chunks that differ in pitch and in
\* loudness, so that the vibrato window, the dynamics window and the breath
\* check all have enough history to act on.
OrderFrames ==
    { Frame(Ok(<<RInt(440)>>, <<Rat(9, 10)>>), Failed("timeout"), Loud, "comprehensive_raises"),
      Frame(Ok(<<RInt(466)>>, <<Rat(9, 10)>>), Failed("timeout"), Quiet, "comprehensive_raises") }

NextOrder ==
    \/ Request(1, MaxVibratoFrames)
    \/ CheckServers(1, "ready")
    \/ \E read \in OrderFrames : ListenChunkUpTo(1, read, MaxVibratoFrames)
    \/ StreamEnd(1)
    \/ \E main_technique \in MainTechniques : Summarise(1, "stored", main_technique)
    \/ Respond(1)

SpecOrder == Init /\ [][NextOrder]_vars

\* One session of one voiced chunk whose windows give every sequence of the
\* estimates 44100/98 and 44100/102 Hz, or the estimates of a
\* 440 Hz tone whose pitch swings by 50 cents at 5.5 Hz: at the window centres
\* 0.05 + 0.1 k seconds the swing is 49, -45, 35, -23, 8, 8, -23, 35, -45
\* cents, i.e. the autocorrelation peaks at lags 97, 103, 98, 102, 100, 100,
\* 102, 98, 103.
WindowLags == {98, 102}

VibratoTone ==
    [i \in 1..WindowCount(ChunkSamples) |->
        LagPitch(<<97, 103, 98, 102, 100, 100, 102, 98, 103>>[i])]

VibratoFrames ==
    { [Frame(Ok(<<RInt(440)>>, <<Rat(9, 10)>>), Ok(<<RInt(438)>>, <<Rat(4, 5)>>), Loud, "ok")
         EXCEPT !.windows = w] :
        w \in [1..WindowCount(ChunkSamples) -> {LagPitch(l) : l \in WindowLags}]
                \cup {VibratoTone} }

NextVibrato ==
    \/ Request(1, 1)
    \/ CheckServers(1, "ready")
    \/ \E read \in VibratoFrames : ListenChunk(1, read)
    \/ StreamEnd(1)
    \/ \E save \in SaveOutcomes, main_technique \in MainTechniques :
          Summarise(1, save, main_technique)
    \/ Respond(1)

SpecVibrato == Init /\ [][NextVibrato]_vars

\* _calculate_performance_score called on its own, on the statistics that
\* generate_analysis can hand it.  confidence_avg is a mean of confidences
\* above min_confidence; variety_score counts the techniques met (1 to 5);
\* vibrato_analysis and dynamics_analysis are missing when no label carries
\* a vibrato / dynamics entry (the labels of simulate_listening); consistency
\* is a mean of 1 - std(changes) / mean(|changes|), which is negative for
\* uneven pitch changes; breath_support_score is min(85 + 2 n, 100).
BasicStatsInputs ==
    { [confidence_avg |-> c] : c \in {Rat(7, 10), Rat(17, 20), Rat(999, 1000), RInt(1)} }

VibratoAnalysisInputs ==
    { [detected |-> FALSE, average_rate |-> Zero, average_depth |-> Zero, consistency |-> Zero],
      [detected |-> TRUE, average_rate |-> Rat(11, 2), average_depth |-> RInt(50),
       consistency |-> RInt(1)],
      [detected |-> TRUE, average_rate |-> Rat(9, 2), average_depth |-> RInt(12),
       consistency |-> RInt(-2)] }

AdvancedStatsInputs ==
    { [technique_analysis |-> [variety_score |-> v],
       breath_analysis |-> [breath_support_score |-> b],
       passaggio_analysis |-> [detected_transitions |-> t]] :
        v \in {1, 2, 5}, b \in {85, 91, 100}, t \in {0, 1, 3} } \cup
    { [technique_analysis |-> [variety_score |-> v],
       vibrato_analysis |-> vib,
       dynamics_analysis |-> [dynamic_variety |-> d],
       breath_analysis |-> [breath_support_score |-> b],
       passaggio_analysis |-> [detected_transitions |-> t]] :
        v \in {1, 5}, vib \in VibratoAnalysisInputs, d \in {1, 3},
        b \in {85, 100}, t \in {0, 3} }

InitScore ==
    /\ InitListener
    /\ call \in { << [basic_stats |-> b, advanced_stats |-> a] >> :
                     b \in BasicStatsInputs, a \in AdvancedStatsInputs }
    /\ returned = <<>>

CallPerformanceScore ==
    /\ call # <<>>
    /\ returned = <<>>
    /\ returned' = << _calculate_performance_score(call[1].basic_stats,
                                                   call[1].advanced_stats) >>
    /\ UNCHANGED <<listener, db, pc, duration, time_offset, chunk, fallback,
                   result, heard, call>>

SpecScore == InitScore /\ [][CallPerformanceScore]_vars

\* _classify_register_advanced and _classify_vowel_shape called on their own,
\* as analyze_comprehensive calls them, up to MaxCalls times in a row.
FrequencyInputs == {0, 150, 250, 500, 800, 2500}

FormantInputs ==
    { [f1 |-> 500, f2 |-> 1500, singers_formant |-> Zero],
      [f1 |-> 650, f2 |-> 1700, singers_formant |-> Rat(2, 5)],
      [f1 |-> 350, f2 |-> 2300, singers_formant |-> Zero],
      [f1 |-> 1500, f2 |-> 3000, singers_formant |-> Zero] }

AudioInputs ==
    { [magnitude |-> 10, weighted |-> 30000],
      [magnitude |-> 0, weighted |-> 0] }

CallClassifiers(frequency, formants, audio_chunk) ==
    /\ Len(call) < MaxCalls
    /\ call' = Append(call, [frequency |-> frequency, formants |-> formants,
                             audio_chunk |-> audio_chunk])
    /\ returned' = Append(returned,
                          [register |-> _classify_register_advanced(frequency, formants,
                                                                    audio_chunk),
                           vowel_shape |-> _classify_vowel_shape(formants)])
    /\ UNCHANGED <<listener, db, pc, duration, time_offset, chunk, fallback,
                   result, heard>>

NextClassify ==
    \E frequency \in FrequencyInputs, formants \in FormantInputs,
       audio_chunk \in AudioInputs :
        CallClassifiers(frequency, formants, audio_chunk)

SpecClassify == Init /\ [][NextClassify]_vars

\* _classify_vowel_shape on its own, on profiles that lie on a target, midway
\* between two targets, and at distance 400 and just beyond from the nearest
VowelInputs ==
    { [f1 |-> 500, f2 |-> 1500], [f1 |-> 340, f2 |-> 775], [f1 |-> 310, f2 |-> 3190],
      [f1 |-> 310, f2 |-> 3191], [f1 |-> 800, f2 |-> 1460], [f1 |-> 430, f2 |-> 1250],
      [f1 |-> 555, f2 |-> 1700], [f1 |-> 0, f2 |-> 0], [f1 |-> 40, f2 |-> 600],
      [f1 |-> 850, f2 |-> 1220], [f1 |-> 1500, f2 |-> 3000] }

CallVowelShape(formants) ==
    /\ Len(call) < MaxCalls
    /\ call' = Append(call, [formants |-> formants])
    /\ returned' = Append(returned, [vowel_shape |-> _classify_vowel_shape(formants)])
    /\ UNCHANGED <<listener, db, pc, duration, time_offset, chunk, fallback,
                   result, heard>>

NextVowel == \E formants \in VowelInputs : CallVowelShape(formants)

SpecVowel == Init /\ [][NextVowel]_vars

(***************************************************************************)
(* FormantAnalyzer: _classify_vocal_technique and _classify_timbre.  The   *)
(* pattern tables are sequences in the order the dicts are written; a      *)
(* range is <<low, high>> with rational ends.                              *)
(***************************************************************************)
vocal_patterns ==
    << [name |-> "chest", f1_range |-> <<600, 900>>, f2_range |-> <<1000, 1500>>,
        singers_formant |-> <<Zero, Rat(3, 10)>>],
       [name |-> "mix", f1_range |-> <<400, 600>>, f2_range |-> <<1500, 2000>>,
        singers_formant |-> <<Rat(3, 10), Rat(3, 5)>>],
       [name |-> "head", f1_range |-> <<250, 400>>, f2_range |-> <<2000, 2800>>,
        singers_formant |-> <<Rat(1, 2), Rat(4, 5)>>],
       [name |-> "belt", f1_range |-> <<700, 1000>>, f2_range |-> <<1500, 2200>>,
        singers_formant |-> <<Rat(7, 10), RInt(1)>>],
       [name |-> "falsetto", f1_range |-> <<200, 350>>, f2_range |-> <<2200, 3000>>,
        singers_formant |-> <<Zero, Rat(1, 5)>>] >>

timbre_patterns ==
    << [name |-> "dark", spectral_centroid |-> <<500, 1500>>,
        f2_f1_ratio |-> <<Rat(3, 2), Rat(5, 2)>>],
       [name |-> "warm", spectral_centroid |-> <<1500, 2500>>,
        f2_f1_ratio |-> <<Rat(5, 2), Rat(7, 2)>>],
       [name |-> "bright", spectral_centroid |-> <<2500, 4000>>,
        f2_f1_ratio |-> <<Rat(7, 2), RInt(5)>>],
       [name |-> "metallic", spectral_centroid |-> <<3500, 5000>>,
        f2_f1_ratio |-> <<Rat(9, 2), RInt(6)>>] >>

\* max(scores, key=scores.get) with ">=": the last of the highest scores
RECURSIVE BestScored_Last(_, _, _)
BestScored_Last(scores, i, best) ==
    IF i > Len(scores) THEN best
    ELSE IF RLeq(scores[best], scores[i]) THEN BestScored_Last(scores, i + 1, i)
         ELSE BestScored_Last(scores, i + 1, best)

\* max(scores, key=scores.get): max() walks the keys in insertion order and
\* keeps the one it holds unless a later score is strictly greater
RECURSIVE BestScored(_, _, _)
BestScored(scores, i, best) ==
    IF i > Len(scores) THEN best
    ELSE IF RLess(scores[best], scores[i]) THEN BestScored(scores, i + 1, i)
         ELSE BestScored(scores, i + 1, best)

\* score += weight when low <= value <= high
Credit(weight, range, value) ==
    IF RLeq(range[1], value) /\ RLeq(value, range[2]) THEN weight ELSE Zero

_classify_vocal_technique(formants, singers_formant) ==
    LET scores == [i \in Indices(vocal_patterns) |->
                     RAdd(RAdd(Credit(Rat(2, 5), <<RInt(vocal_patterns[i].f1_range[1]),
                                                   RInt(vocal_patterns[i].f1_range[2])>>,
                                      RInt(formants.f1)),
                               Credit(Rat(3, 10), <<RInt(vocal_patterns[i].f2_range[1]),
                                                    RInt(vocal_patterns[i].f2_range[2])>>,
                                      RInt(formants.f2))),
                          Credit(Rat(3, 10), vocal_patterns[i].singers_formant,
                                 singers_formant))]
        best_technique == BestScored(scores, 2, 1)
    IN  [technique |-> vocal_patterns[best_technique].name,
         confidence |-> scores[best_technique],
         scores |-> scores]

_classify_timbre(spectral, formants) ==
    LET f2_f1_ratio == IF formants.f1 > 0 THEN Rat(formants.f2, formants.f1) ELSE Rat(5, 2)
        scores == [i \in Indices(timbre_patterns) |->
                     RAdd(Credit(Rat(1, 2), <<RInt(timbre_patterns[i].spectral_centroid[1]),
                                              RInt(timbre_patterns[i].spectral_centroid[2])>>,
                                 RInt(spectral.spectral_centroid)),
                          Credit(Rat(1, 2), timbre_patterns[i].f2_f1_ratio, f2_f1_ratio))]
        best_timbre == BestScored(scores, 2, 1)
    IN  [timbre |-> timbre_patterns[best_timbre].name,
         confidence |-> scores[best_timbre],
         scores |-> scores]

\* what analyze_audio hands to the two classifiers
TechniqueFormants == {[f1 |-> f1, f2 |-> f2] : f1 \in {300, 800, 1100}, f2 \in {1200, 2100, 3500}}
SingersFormants == {Zero, Rat(3, 10), Rat(3, 4), Rat(3, 2)}
TimbreFormants ==
    {[f1 |-> 0, f2 |-> 1200], [f1 |-> 500, f2 |-> 1250],
     [f1 |-> 300, f2 |-> 2100], [f1 |-> 500, f2 |-> 2300]}
SpectralInputs == {[spectral_centroid |-> c] : c \in {1000, 1500, 3700, 6000}}

CallVocalTechnique(formants, singers_formant) ==
    /\ Len(call) < MaxCalls
    /\ call' = Append(call, [formants |-> formants, singers_formant |-> singers_formant])
    /\ returned' = Append(returned, _classify_vocal_technique(formants, singers_formant))
    /\ UNCHANGED <<listener, db, pc, duration, time_offset, chunk, fallback,
                   result, heard>>

CallTimbre(spectral, formants) ==
    /\ Len(call) < MaxCalls
    /\ call' = Append(call, [spectral |-> spectral, formants |-> formants])
    /\ returned' = Append(returned, _classify_timbre(spectral, formants))
    /\ UNCHANGED <<listener, db, pc, duration, time_offset, chunk, fallback,
                   result, heard>>

NextFormant ==
    \/ \E formants \in TechniqueFormants, singers_formant \in SingersFormants :
          CallVocalTechnique(formants, singers_formant)
    \/ \E spectral \in SpectralInputs, formants \in TimbreFormants :
          CallTimbre(spectral, formants)

SpecFormant == Init /\ [][NextFormant]_vars

(***************************************************************************)
(* Properties of the fusion of the two pitch engines.                      *)
(***************************************************************************)

\* C1: when the CREPE and the SPICE result are both present for a chunk, the
\* label appended for it has frequency (f_crepe*c_crepe + f_spice*c_spice) /
\* (c_crepe + c_spice) and confidence (c_crepe + c_spice) / 2.
C1_FusionLaw ==
    \A s \in Sessions :
        (/\ chunk[s] # <<>>
         /\ chunk[s][1].decodes
         /\ DOMAIN AnalysisResults(chunk[s][1]) = {"crepe", "spice"})
        => LET c == AnalysisResults(chunk[s][1])["crepe"]
               p == AnalysisResults(chunk[s][1])["spice"]
           IN  /\ labels # <<>>
               /\ RMul(labels[Len(labels)].frequency, RAdd(c.confidence, p.confidence))
                    = RAdd(RMul(c.frequency, c.confidence), RMul(p.frequency, p.confidence))
               /\ RMul(labels[Len(labels)].confidence, RInt(2))
                    = RAdd(c.confidence, p.confidence)

\* a chunk for which both engines answered with different frequencies and
\* different confidences has been labelled
C1_Witness ==
    \E s \in Sessions :
        /\ chunk[s] # <<>>
        /\ chunk[s][1].decodes
        /\ DOMAIN AnalysisResults(chunk[s][1]) = {"crepe", "spice"}
        /\ AnalysisResults(chunk[s][1])["crepe"].frequency
             # AnalysisResults(chunk[s][1])["spice"].frequency
        /\ AnalysisResults(chunk[s][1])["crepe"].confidence
             # AnalysisResults(chunk[s][1])["spice"].confidence
        /\ labels # <<>>
        /\ labels[Len(labels)].source = "CREPE+SPICE"
        /\ labels[Len(labels)].time = time_offset[s] - 1

\* C2: when exactly one engine result is present for a chunk, the label
\* appended for it carries that engine's frequency and confidence unchanged;
\* the single estimate (196.0 Hz, 0.85) gives frequency 196.0, confidence 0.85
\* and note G3.
C2_SingleEnginePassThrough ==
    \A s \in Sessions :
        (/\ chunk[s] # <<>>
         /\ chunk[s][1].decodes
         /\ Cardinality(DOMAIN AnalysisResults(chunk[s][1])) = 1)
        => LET only == AnalysisResults(chunk[s][1])[
                           CHOOSE k \in DOMAIN AnalysisResults(chunk[s][1]) : TRUE]
           IN  /\ labels # <<>>
               /\ labels[Len(labels)].frequency = only.frequency
               /\ labels[Len(labels)].confidence = only.confidence
               /\ (only.frequency = RInt(196) /\ only.confidence = Rat(17, 20))
                    => /\ labels[Len(labels)].frequency = <<196, 1>>
                       /\ labels[Len(labels)].confidence = <<17, 20>>
                       /\ labels[Len(labels)].note = "G3"

\* the chunk for which SPICE alone reported (196.0 Hz, 0.85) has been labelled G3
C2_Witness ==
    \E s \in Sessions :
        /\ chunk[s] # <<>>
        /\ chunk[s][1].decodes
        /\ chunk[s][1].crepe.kind \in FailureKinds
        /\ chunk[s][1].spice = Ok(<<RInt(196)>>, <<Rat(17, 20)>>)
        /\ labels # <<>>
        /\ labels[Len(labels)].source = "SPICE"
        /\ labels[Len(labels)].note = "G3"

\* C3: a chunk for which neither engine yields a result leaves labels and
\* pitch_history as they were, and its amplitude is appended to
\* amplitude_history.
C3_UnvoicedFrame ==
    [][\A s \in Sessions :
          (/\ pc[s] = "stream"
           /\ time_offset'[s] = time_offset[s] + 1
           /\ DOMAIN AnalysisResults(chunk'[s][1]) = {})
          => /\ labels' = labels
             /\ pitch_history' = pitch_history
             /\ amplitude_history' =
                  Append(amplitude_history,
                         [time |-> time_offset[s],
                          amplitude |-> chunk'[s][1].level.amplitude,
                          rms |-> chunk'[s][1].level.rms])]_vars

\* an unvoiced chunk has been analysed after a voiced one
C3_Witness ==
    \E s \in Sessions :
        /\ pc[s] = "stream"
        /\ chunk[s] # <<>>
        /\ chunk[s][1].decodes
        /\ DOMAIN AnalysisResults(chunk[s][1]) = {}
        /\ time_offset[s] = 2
        /\ Len(labels) = 1
        /\ Len(pitch_history) = 1
        /\ Len(amplitude_history) = 2

\* C4: an exception, a timeout or a non-200 answer of a pitch engine does not
\* leave analyze_chunk: the stream goes on, the engine counts as absent, and
\* if the other engine gave an estimate the chunk's label is that estimate.
C4_EngineFailureAbsorbed ==
    \A s \in Sessions :
        (/\ chunk[s] # <<>>
         /\ chunk[s][1].decodes
         /\ \/ chunk[s][1].crepe.kind \in FailureKinds
            \/ chunk[s][1].spice.kind \in FailureKinds)
        => LET analysis_results == AnalysisResults(chunk[s][1])
           IN  /\ fallback[s] = "none"
               /\ time_offset[s] >= 1
               /\ chunk[s][1].crepe.kind \in FailureKinds
                    => "crepe" \notin DOMAIN analysis_results
               /\ chunk[s][1].spice.kind \in FailureKinds
                    => "spice" \notin DOMAIN analysis_results
               /\ \A k \in DOMAIN analysis_results :
                     /\ labels # <<>>
                     /\ labels[Len(labels)].frequency = analysis_results[k].frequency
                     /\ labels[Len(labels)].confidence = analysis_results[k].confidence
                     /\ labels[Len(labels)].source = analysis_results[k].source

\* the CREPE call raised or timed out, SPICE answered, and the chunk has been
\* labelled from SPICE while the stream goes on
C4_Witness ==
    \E s \in Sessions :
        /\ pc[s] = "stream"
        /\ chunk[s] # <<>>
        /\ chunk[s][1].decodes
        /\ chunk[s][1].crepe.kind \in {"exception", "timeout"}
        /\ DOMAIN AnalysisResults(chunk[s][1]) = {"spice"}
        /\ labels # <<>>
        /\ labels[Len(labels)].source = "SPICE"
        /\ labels[Len(labels)].time = time_offset[s] - 1

(***************************************************************************)
(* Properties of a session.                                                *)
(***************************************************************************)

\* C5: when the engines are unavailable for the whole session the session
\* records no pitched frame: every label it holds was built by analyze_chunk
\* from an engine estimate of one of the session's chunks.
C5_UnavailableEnginesNoLabels ==
    \A s \in Sessions :
        fallback[s] = "servers_down"
        => \A i \in Indices(labels) :
              \E j \in Indices(heard[s]) : heard[s][j] = labels[i]

\* C6: every label in labels has a frequency strictly greater than 0.
C6_LabelFrequencyPositive ==
    \A i \in Indices(labels) : RLess(Zero, labels[i].frequency)

\* C7: when virtual_listen starts a session on a listener that has already
\* run one, none of the six lists holds an entry of the earlier session.
C7_AccumulatorCleared ==
    \A s \in Sessions :
        (/\ pc[s] = "servers"
         /\ \A o \in Sessions \ {s} : pc[o] = "closed")
        => /\ labels = <<>>
           /\ pitch_history = <<>>
           /\ amplitude_history = <<>>
           /\ breath_positions = <<>>
           /\ comprehensive_labels = <<>>
           /\ pedagogical_assessments = <<>>

\* C8: under every interleaving of two requests, the labels returned for a
\* session that streamed its audio, and the count in its summary, are those of
\* chunks analysed for that session.
C8_SessionsIsolated ==
    \A s \in Sessions :
        (pc[s] = "done" /\ fallback[s] = "none" /\ result[s] # <<>>)
        => /\ \A i \in Indices(result[s][1].labels) :
                 \E j \in Indices(heard[s]) : heard[s][j] = result[s][1].labels[i]
           /\ result[s][1].analysis.detected_notes <= Len(heard[s])

\* C9: when the stream fails after chunks have been labelled, the session
\* returns a summary and its labels are exactly the labels accumulated before
\* the failure.
C9_PartialHistorySummarised ==
    \A s \in Sessions :
        (pc[s] = "done" /\ fallback[s] = "stream_error" /\ heard[s] # <<>>)
        => /\ result[s] # <<>>
           /\ result[s][1].labels = heard[s]
           /\ result[s][1].analysis.detected_notes = Len(heard[s])

\* C10: a chunk whose decoding raises is skipped: the handler stays in the
\* streaming loop, ready for the next chunk, and the labels built so far stay.
C10_MalformedFrameSkipped ==
    [][\A s \in Sessions :
          MalformedChunk(s) => (pc'[s] = "stream" /\ labels' = labels)]_vars

(***************************************************************************)
(* Properties of the histories and of the note name.                       *)
(***************************************************************************)

C12_BreathAtRunStart ==
    LET n == Len(amplitude_history)
        total == RSum([i \in 1..n |-> RInt(amplitude_history[i].amplitude)])[1]
        \* amplitude < 0.1 * mean
        Low(i) == amplitude_history[i].amplitude * 10 * n < total
        RunStart(i) == /\ i + 4 <= n
                       /\ \A k \in i..(i + 4) : Low(k)
                       /\ i > 1 => ~Low(i - 1)
    IN  /\ \A i \in 1..n :
              RunStart(i) => \E b \in Indices(breath_positions) :
                                 breath_positions[b] = amplitude_history[i].time
        /\ [i \in 1..n |-> amplitude_history[i].amplitude] = <<500, 400, 10, 10, 10, 10, 10>>
              => \E b \in Indices(breath_positions) : breath_positions[b] = 2

\* C13: a chunk whose pitch oscillates at 5.5 Hz with a depth of 50 cents is
\* reported by the vibrato analysis as detected vibrato of type natural.
C13_VibratoNatural ==
    \A s \in Sessions :
        (/\ chunk[s] # <<>>
         /\ chunk[s][1].decodes
         /\ chunk[s][1].windows = VibratoTone
         /\ comprehensive_labels # <<>>)
        => /\ comprehensive_labels[Len(comprehensive_labels)].vibrato.detected
           /\ comprehensive_labels[Len(comprehensive_labels)].vibrato.type = "natural"

(***************************************************************************)
(* Properties of the performance score.                                    *)
(***************************************************************************)

\* C14: whatever the statistics, every component of score_breakdown is >= 0,
\* the total returned equals the sum of the components, and 0 <= total <= 100.
C14_ScoreBounds ==
    returned # <<>>
    => LET score == returned[1]
           components == [i \in Indices(ComponentNames) |->
                             score.score_breakdown[ComponentNames[i]]]
       IN  /\ \A i \in Indices(components) : RLeq(Zero, components[i])
           /\ score.total_score = RSum(components)
           /\ RLeq(Zero, score.total_score)
           /\ RLeq(score.total_score, RInt(100))

\* C15: of any two score results the one with the higher total_score never
\* has the lower grade, and two results with the same total_score have the
\* same grade (S from 90, A from 80, B from 70, C from 60, otherwise D).
C15_GradeMonotone ==
    returned # <<>>
    => LET Rank(grade) == CHOOSE r \in 1..5 : <<"D", "C", "B", "A", "S">>[r] = grade
           mine == returned[1]
       IN  /\ mine.grade = (IF RLeq(RInt(90), mine.total_score) THEN "S"
                            ELSE IF RLeq(RInt(80), mine.total_score) THEN "A"
                            ELSE IF RLeq(RInt(70), mine.total_score) THEN "B"
                            ELSE IF RLeq(RInt(60), mine.total_score) THEN "C"
                            ELSE "D")
           /\ \A b \in BasicStatsInputs : \A a \in AdvancedStatsInputs :
                 LET other == _calculate_performance_score(b, a)
                 IN  /\ RLess(other.total_score, mine.total_score)
                          => Rank(other.grade) <= Rank(mine.grade)
                     /\ other.total_score = mine.total_score
                          => other.grade = mine.grade

(***************************************************************************)
(* Properties of the register and vowel classifiers.                       *)
(***************************************************************************)

C17_NearestNote ==
    LET \* 440 * 2^((k - 57.5)/12) for the octave 4 in mHz: the lower edge of
        \* the band of frequencies nearest to semitone k
        edges == <<254178, 269292, 285305, 302270, 320244, 339286,
                   359461, 380836, 403482, 427474, 452893, 479823>>
        \* edge of semitone k of the octaves 3 to 5, times 2, in mHz
        Edge2(k) == IF k \div 12 = 3 THEN edges[(k % 12) + 1]
                    ELSE IF k \div 12 = 4 THEN 2 * edges[(k % 12) + 1]
                    ELSE 4 * edges[(k % 12) + 1]
        Nearest(k, freq) == /\ Edge2(k) * freq[2] <= 2000 * freq[1]
                            /\ 2000 * freq[1] < Edge2(k + 1) * freq[2]
    IN  \A i \in Indices(labels) :
            ("source" \in DOMAIN labels[i] /\ labels[i].source = "CREPE+SPICE")
            => /\ \A k \in 36..58 :
                     Nearest(k, labels[i].frequency)
                     => labels[i].note = notes[(k % 12) + 1] \o ToString(k \div 12)
               /\ labels[i].frequency = Rat(440 * 9 + 438 * 8, 17)
                     => labels[i].note = "A4"

(***************************************************************************)
(* C18: when save_label raises while a session with labels is being stored *)
(* (the database is left as it was), virtual_listen still returns a result *)
(* and not None: the result carries the labels of the session and the      *)
(* analysis generated from them, exactly as after a successful save, and   *)
(* only database_id is missing.                                            *)
(***************************************************************************)
C18_SaveFailureAbsorbed ==
    [][\A s \in Sessions :
          (pc[s] = "summarise" /\ pc'[s] = "done" /\ labels # <<>>) =>
              /\ result'[s] # <<>>
              /\ result'[s][1].labels = labels
              /\ \E main_technique \in MainTechniques :
                    result'[s][1].analysis = generate_analysis(main_technique)
              /\ result'[s][1].duration_analyzed = duration[s]
              /\ result'[s][1].has_database_id = (db' # db)]_vars

\* a session with labels was summarised, its save failed, and the result is there
C18_Witness ==
    \E s \in Sessions :
        /\ pc[s] = "done"
        /\ labels # <<>>
        /\ db = <<>>
        /\ result[s] # <<>>
        /\ ~result[s][1].has_database_id

C20_PresentAboveHalf ==
    \A s \in Sessions :
        (chunk[s] # <<>> /\ chunk[s][1].decodes /\ ~EngineCallRaises(chunk[s][1])) =>
            LET frame == chunk[s][1]
                analysis_results == AnalysisResults(frame)
                Confident(response) ==
                    {i \in Indices(response.confidences) :
                        RLess(Rat(1, 2), response.confidences[i])}
                Holds(engine, response) ==
                    /\ (engine \in DOMAIN analysis_results) <=> (Confident(response) # {})
                    /\ (engine \in DOMAIN analysis_results) =>
                          RMul(analysis_results[engine].confidence,
                               RInt(Cardinality(Confident(response))))
                            = RSum([j \in 1..Cardinality(Confident(response)) |->
                                     response.confidences[
                                        CHOOSE i \in Confident(response) :
                                           Cardinality({k \in Confident(response) : k <= i}) = j]])
            IN  /\ frame.crepe.kind = "ok" => Holds("crepe", frame.crepe)
                /\ frame.spice.kind = "ok" => Holds("spice", frame.spice)

\* C20, with the threshold that the listener is constructed with: the samples
\* of an engine that count are those with a confidence above min_confidence =
\* 0.6; the engine is present for fusion if and only if it has such a sample,
\* its estimate is the mean pitch and the mean confidence of those samples,
\* and the label of the chunk names exactly the engines that are present.
C20_PresentAboveMinConfidence ==
    \A s \in Sessions :
        (chunk[s] # <<>> /\ chunk[s][1].decodes /\ ~EngineCallRaises(chunk[s][1])) =>
            LET frame == chunk[s][1]
                analysis_results == AnalysisResults(frame)
                Confident(response) ==
                    {i \in Indices(response.confidences) :
                        RLess(Rat(3, 5), response.confidences[i])}
                Picked(response, values) ==
                    [j \in 1..Cardinality(Confident(response)) |->
                        values[CHOOSE i \in Confident(response) :
                                  Cardinality({k \in Confident(response) : k <= i}) = j]]
                Holds(engine, response) ==
                    /\ (engine \in DOMAIN analysis_results) <=> (Confident(response) # {})
                    /\ (engine \in DOMAIN analysis_results) =>
                          /\ analysis_results[engine].confidence
                               = Mean(Picked(response, response.confidences))
                          /\ analysis_results[engine].frequency
                               = Mean(Picked(response, response.pitches))
                present == {engine \in {"crepe", "spice"} :
                               /\ frame[engine].kind = "ok"
                               /\ Confident(frame[engine]) # {}}
            IN  /\ frame.crepe.kind = "ok" => Holds("crepe", frame.crepe)
                /\ frame.spice.kind = "ok" => Holds("spice", frame.spice)
                /\ present # {} =>
                      /\ labels # <<>>
                      /\ labels[Len(labels)].time = time_offset[s] - 1
                      /\ labels[Len(labels)].source =
                            (IF present = {"crepe", "spice"} THEN "CREPE+SPICE"
                             ELSE IF present = {"crepe"} THEN "CREPE" ELSE "SPICE")

\* a chunk was labelled from CREPE alone because the only SPICE sample had a
\* confidence between 0.5 and 0.6
C20_Witness ==
    \E s \in Sessions :
        /\ chunk[s] # <<>>
        /\ chunk[s][1].decodes
        /\ chunk[s][1].crepe.kind = "ok"
        /\ chunk[s][1].spice.kind = "ok"
        /\ \E i \in Indices(chunk[s][1].spice.confidences) :
              /\ RLess(Rat(1, 2), chunk[s][1].spice.confidences[i])
              /\ RLeq(chunk[s][1].spice.confidences[i], min_confidence)
        /\ DOMAIN AnalysisResults(chunk[s][1]) = {"crepe"}
        /\ labels # <<>>
        /\ labels[Len(labels)].time = time_offset[s] - 1
        /\ labels[Len(labels)].source = "CREPE"

(***************************************************************************)
(* C21: when both engines report for a chunk and their frequencies differ  *)
(* by more than 20 Hz, the label of the chunk still carries the            *)
(* confidence-weighted average and is flagged low-reliability; when they   *)
(* differ by at most 20 Hz the label is not flagged.                       *)
(***************************************************************************)
C21_DisagreementFlagged ==
    \A s \in Sessions :
        (/\ chunk[s] # <<>>
         /\ chunk[s][1].decodes
         /\ DOMAIN AnalysisResults(chunk[s][1]) = {"crepe", "spice"})
        => LET c == AnalysisResults(chunk[s][1])["crepe"]
               p == AnalysisResults(chunk[s][1])["spice"]
               label == labels[Len(labels)]
               apart == RLess(RInt(20), RAbs(RSub(c.frequency, p.frequency)))
           IN  /\ labels # <<>>
               /\ RMul(label.frequency, RAdd(c.confidence, p.confidence))
                    = RAdd(RMul(c.frequency, c.confidence), RMul(p.frequency, p.confidence))
               /\ Get(label, "low_reliability", FALSE) = apart

(***************************************************************************)
(* C22: a temporal detector with less history than it needs reports an     *)
(* explicit "insufficient_data" state instead of a classification.  For    *)
(* the label of every analysed chunk: when fewer than 5 pitch points were  *)
(* in pitch_history the vibrato entry says "insufficient_data", and when   *)
(* fewer than 5 amplitude samples were in amplitude_history the dynamics   *)
(* entry says "insufficient_data".                                         *)
(***************************************************************************)
C22_InsufficientHistoryReported ==
    \A s \in Sessions :
        (/\ pc[s] = "stream"
         /\ chunk[s] # <<>>
         /\ chunk[s][1].decodes
         /\ labels # <<>>
         /\ labels[Len(labels)].time = time_offset[s] - 1)
        => LET label == labels[Len(labels)]
               Insufficient(entry) ==
                   \/ Get(entry, "type", "") = "insufficient_data"
                   \/ Get(entry, "state", "") = "insufficient_data"
                   \/ Get(entry, "level", "") = "insufficient_data"
                   \/ Get(entry, "change", "") = "insufficient_data"
               \* pitch_history before the chunk's own pitch was appended
               pitch_points == IF RLess(Zero, label.frequency)
                               THEN Len(pitch_history) - 1 ELSE Len(pitch_history)
           IN  /\ pitch_points < 5 => Insufficient(label.vibrato)
               /\ Len(amplitude_history) < 5 => Insufficient(label.dynamics)

(***************************************************************************)
(* C23: for every chunk that received both a fused label and a             *)
(* comprehensive label, the comprehensive label's fundamental_frequency    *)
(* and confidence equal the frequency and confidence of the fused label,   *)
(* also when only one engine produced an estimate.                         *)
(***************************************************************************)
C23_ComprehensiveFromFused ==
    \A i \in Indices(labels), j \in Indices(comprehensive_labels) :
        (/\ "source" \in DOMAIN labels[i]
         /\ labels[i].time = comprehensive_labels[j].timestamp)
        => /\ comprehensive_labels[j].fundamental_frequency = labels[i].frequency
           /\ comprehensive_labels[j].confidence = labels[i].confidence

(***************************************************************************)
(* C24: _classify_vowel_shape returns the vowel whose (F1, F2) target is   *)
(* nearest to the profile, the earliest-declared one when several are      *)
(* equally near, and MIXED exactly when the least distance exceeds 400;    *)
(* the neutral profile (500, 1500) is classified as SCHWA.                 *)
(***************************************************************************)
C24_NearestVowel ==
    \A k \in Indices(returned) :
        "vowel_shape" \in DOMAIN returned[k] =>
            LET formants == call[k].formants
                vowel == returned[k].vowel_shape
                D(i) == VowelDistance2(formants, i)
                Nearest(i) == \A j \in Indices(vowel_formants) : D(i) <= D(j)
            IN  /\ (vowel = "MIXED") <=>
                      (\A i \in Indices(vowel_formants) : D(i) > 400 * 400)
                /\ vowel # "MIXED" =>
                      \E i \in Indices(vowel_formants) :
                          /\ vowel_formants[i][1] = vowel
                          /\ Nearest(i)
                          /\ \A j \in 1..(i - 1) : ~Nearest(j)
                /\ (formants.f1 = 500 /\ formants.f2 = 1500) => vowel = "SCHWA"

\* a profile midway between O_CLOSE and U was classified as O_CLOSE, and one
\* at distance 400 from I, its nearest target, as I
C24_Witness ==
    /\ \E k \in Indices(returned) :
          call[k].formants = [f1 |-> 340, f2 |-> 775] /\ returned[k].vowel_shape = "O_CLOSE"
    /\ \E k \in Indices(returned) :
          call[k].formants = [f1 |-> 310, f2 |-> 3190] /\ returned[k].vowel_shape = "I"

(***************************************************************************)
(* C25: _classify_vocal_technique scores each pattern 0.4 (F1 in range) +  *)
(* 0.3 (F2 in range) + 0.3 (singer's formant in range), _classify_timbre   *)
(* 0.5 (centroid in range) + 0.5 (F2/F1 ratio in range); each returns a    *)
(* pattern of maximal score, and among several patterns of maximal score   *)
(* (all scoring 0 included) the one declared first in the table.           *)
(***************************************************************************)
C25_FirstDeclaredMaximum ==
    \A k \in Indices(returned) :
        LET In(low, value, high) == RLeq(low, value) /\ RLeq(value, high)
            Part(weight, inside) == IF inside THEN weight ELSE Zero
            order == IF "technique" \in DOMAIN returned[k]
                     THEN <<"chest", "mix", "head", "belt", "falsetto">>
                     ELSE <<"dark", "warm", "bright", "metallic">>
            name == IF "technique" \in DOMAIN returned[k]
                    THEN returned[k].technique ELSE returned[k].timbre
            ratio == IF call[k].formants.f1 > 0
                     THEN Rat(call[k].formants.f2, call[k].formants.f1) ELSE Rat(5, 2)
            Score(i) ==
                IF "technique" \in DOMAIN returned[k]
                THEN LET p == vocal_patterns[i]
                     IN  RAdd(Part(Rat(4, 10),
                                   p.f1_range[1] <= call[k].formants.f1
                                     /\ call[k].formants.f1 <= p.f1_range[2]),
                         RAdd(Part(Rat(3, 10),
                                   p.f2_range[1] <= call[k].formants.f2
                                     /\ call[k].formants.f2 <= p.f2_range[2]),
                              Part(Rat(3, 10),
                                   In(p.singers_formant[1], call[k].singers_formant,
                                      p.singers_formant[2]))))
                ELSE LET p == timbre_patterns[i]
                     IN  RAdd(Part(Rat(1, 2),
                                   p.spectral_centroid[1] <= call[k].spectral.spectral_centroid
                                     /\ call[k].spectral.spectral_centroid
                                          <= p.spectral_centroid[2]),
                              Part(Rat(1, 2), In(p.f2_f1_ratio[1], ratio, p.f2_f1_ratio[2])))
        IN  ("scores" \in DOMAIN returned[k]) =>
                /\ \A i \in Indices(order) : returned[k].scores[i] = Score(i)
                /\ \E i \in Indices(order) :
                      /\ order[i] = name
                      /\ returned[k].confidence = Score(i)
                      /\ \A j \in Indices(order) : RLeq(Score(j), Score(i))
                      /\ \A j \in 1..(i - 1) : RLess(Score(j), Score(i))

\* head was returned where head and falsetto tie, and dark where no timbre
\* pattern scores
C25_Witness ==
    /\ \E k \in Indices(returned) :
          /\ "technique" \in DOMAIN returned[k]
          /\ returned[k].technique = "head"
          /\ returned[k].scores[3] = returned[k].scores[5]
          /\ returned[k].confidence = Rat(2, 5)
    /\ \E k \in Indices(returned) :
          /\ "timbre" \in DOMAIN returned[k]
          /\ returned[k].timbre = "dark"
          /\ returned[k].confidence = Zero

(***************************************************************************)
(* C26: every sub-score of a pedagogical assessment is on a 0-100 scale;   *)
(* in particular the pitch accuracy score of every assessment that the     *)
(* listener stores lies in [0, 100].                                       *)
(***************************************************************************)
C26_SubScoresWithinScale ==
    \A i \in Indices(pedagogical_assessments) :
        /\ RLeq(Zero, pedagogical_assessments[i].pitch_accuracy.score)
        /\ RLeq(pedagogical_assessments[i].pitch_accuracy.score, RInt(100))

(***************************************************************************)
(* C27: _generate_recommendations never returns an empty list.  It holds   *)
(* one message for each component below its minimum (pitch 20, technique   *)
(* 15, vibrato 10, dynamics 10, breath 10, passaggio 5), in that order,    *)
(* and the single positive message exactly when no component is below its  *)
(* minimum.                                                                *)
(***************************************************************************)
C27_RecommendationsRule ==
    \A k \in Indices(returned) :
        "recommendations" \in DOMAIN returned[k] =>
            LET recommendations == returned[k].recommendations
                breakdown == returned[k].score_breakdown
                minimum == <<20, 15, 10, 10, 10, 5>>
                below == {i \in Indices(ComponentNames) :
                             RLess(breakdown[ComponentNames[i]], RInt(minimum[i]))}
                Position(i) == Cardinality({j \in below : j <= i})
            IN  /\ recommendations # <<>>
                /\ below # {} =>
                      /\ Len(recommendations) = Cardinality(below)
                      /\ \A i \in below : recommendations[Position(i)] = ComponentNames[i]
                /\ (below = {}) <=> (recommendations = <<"keep_current_level">>)

\* a score with no component below its minimum was computed and carries the
\* positive message alone
C27_Witness ==
    /\ returned # <<>>
    /\ returned[1].recommendations = <<"keep_current_level">>
    /\ RLeq(RInt(20), returned[1].score_breakdown.pitch_accuracy)
    /\ RLeq(RInt(5), returned[1].score_breakdown.passaggio_handling)

(***************************************************************************)
(* C28: during the first streaming session of a fresh listener, with       *)
(* chunks at the offsets 0, 1, 2, ... seconds, _detect_vibrato_advanced    *)
(* never returns detected = True and never a rate above 0.5 Hz; the        *)
(* vibrato_quality component of the session's score is exactly 5 and its   *)
(* total_score is at most 90.                                              *)
(***************************************************************************)
C28_NoVibratoInFirstSession ==
    /\ \A i \in Indices(labels) :
          "vibrato" \in DOMAIN labels[i] =>
              /\ ~labels[i].vibrato.detected
              /\ RLeq(labels[i].vibrato.rate, Rat(1, 2))
    /\ \A s \in Sessions :
          (pc[s] = "done" /\ result[s] # <<>>) =>
              LET overall_performance == result[s][1].analysis.overall_performance
              IN  /\ overall_performance.score_breakdown.vibrato_quality = RInt(5)
                  /\ RLeq(overall_performance.total_score, RInt(90))

\* a session was scored in which the detector ran on ten alternating pitches
\* and computed its highest rate, 0.5 Hz
C28_Witness ==
    \E s \in Sessions :
        /\ pc[s] = "done"
        /\ result[s] # <<>>
        /\ Len(pitch_history) > vibrato_window
        /\ \E i \in Indices(labels) : labels[i].vibrato.rate = Rat(1, 2)
        /\ result[s][1].analysis.vibrato_analysis.average_rate = Rat(1, 2)

C30_UpdateOrder ==
    LET Upto(hist, n) == SubSeq(hist, 1, n)
        Breath(n) == /\ amplitude_history[n].amplitude < 10
                     /\ n > 5
                     /\ \A k \in (n - 4)..n : amplitude_history[k].amplitude < 20
    IN  /\ Len(labels) = Len(pitch_history)
        /\ Len(labels) = Len(amplitude_history)
        /\ \A i \in Indices(labels) :
              /\ labels[i].vibrato = _detect_vibrato_advanced(Upto(pitch_history, i - 1))
              /\ labels[i].dynamics =
                   _analyze_dynamics(labels[i].amplitude, Upto(amplitude_history, i))
              /\ Breath(i) <=> \E k \in Indices(breath_positions) :
                                  breath_positions[k] = amplitude_history[i].time

\* a session in which the order shows in all three results: a label whose
\* vibrato would differ had its own pitch been in the window, a label whose
\* dynamics would differ without its own amplitude, and a breath recorded at
\* the sixth chunk, which only counts as the chunk's own amplitude is the sixth
C30_Witness ==
    /\ \E i \in Indices(labels) :
          /\ i <= Len(pitch_history)
          /\ labels[i].vibrato # _detect_vibrato_advanced(SubSeq(pitch_history, 1, i))
    /\ \E j \in Indices(labels) :
          /\ j <= Len(amplitude_history)
          /\ labels[j].dynamics #
               _analyze_dynamics(labels[j].amplitude, SubSeq(amplitude_history, 1, j - 1))
    /\ Len(amplitude_history) >= 6
    /\ \E k \in Indices(breath_positions) : breath_positions[k] = amplitude_history[6].time

=============================================================================
